---- MODULE Spec2Model ----
(***************************************************************************)
(* Model of core/all_whisper_methods/whisperX.py: transcribe(video_file)   *)
(* and transcribe_audio(audio_file, start, end).                           *)
(*                                                                         *)
(* Times are whole time units.  The collaborators that live outside the    *)
(* file (the speech and alignment models, ffmpeg, librosa, demucs, the     *)
(* planner and the persistence sink) are nondeterministic: each call       *)
(* either raises or returns one value of a small set.                      *)
(***************************************************************************)
EXTENDS Integers, Sequences, FiniteSets, TLC

\* ---------------------------------------------------------------- bounds
\* most ranges in a plan
MaxChunks == 2
\* longest planned range, in time units
MaxChunkSeconds == 2
\* lengths of the vocal track, in time units: 1 to MaxChunks ranges, the
\* last range full or one unit long
Durations ==
    {k * MaxChunkSeconds : k \in 1..MaxChunks}
        \cup {(k - 1) * MaxChunkSeconds + 1 : k \in 1..MaxChunks}
\* number of calls of transcribe() in one behaviour
MaxRuns == 2

\* ------------------------------------------------------------ the domain
\* an artifact that is not on the store, and one that holds content
NoFile == [present |-> FALSE]
File(content) == [present |-> TRUE, content |-> content]
\* the language marker of a store that has none
NoLanguage == "absent"
\* a transcript artifact left by an earlier session
OldTranscript ==
    File(<<[start |-> 0, end |-> 1, text |-> "old", words |-> <<>>]>>)

ConfigLanguages == {"zh", "en", "auto"}
DetectedLanguages == {"zh", "en", "ja"}

\* the devices a run can find, gpu_mem being total_memory / (1024**3) of
\* device 0 in GB: the memory test of line 27 and the bf16 test of line 28
\* are independent, and each outcome of each is there
Capabilities ==
    {[device |-> "cuda", gpu_mem |-> 8, bf16 |-> FALSE],
     [device |-> "cuda", gpu_mem |-> 9, bf16 |-> TRUE],
     [device |-> "cpu", gpu_mem |-> 0, bf16 |-> FALSE]}

\* what whisperx.align can return for one range: chunk-relative segments,
\* words in speech order, a word's start and end each present or not
AlignOutputs ==
    { <<>>,
      << [start |-> 0, end |-> 2, text |-> "ab",
          words |-> << [word |-> "a", start |-> 0, end |-> 1],
                       [word |-> "b", start |-> 1] >>] >>,
      << [start |-> 1, end |-> 2, text |-> "c",
          words |-> << [word |-> "c", end |-> 2] >>],
         [start |-> 0, end |-> 1, text |-> "d",
          words |-> << [word |-> "d"] >>] >> }

Min(a, b) == IF a < b THEN a ELSE b

\* ------------------------------------------------- collaborators (spec)
\* Segment Planner: uniform cuts of [0, total) of at most maxChunk units
PlanOf(total, maxChunk) ==
    LET n == (total + maxChunk - 1) \div maxChunk
    IN  [k \in 1..n |-> <<(k - 1) * maxChunk, Min(k * maxChunk, total)>>]

\* process_transcription: the table handed to save_results
process_transcription(combined) == combined.segments

\* ------------------------------------------------------ transcribe_audio
\* line 27 with the threshold included
batch_sizeFrom8(cap) ==
    IF cap.device = "cuda"
    THEN (IF cap.gpu_mem >= 8 THEN 16 ELSE 2)
    ELSE 1

\* lines 25-33: batch size and compute type from the device
batch_size(cap) ==
    IF cap.device = "cuda"
    THEN (IF cap.gpu_mem > 8 THEN 16 ELSE 2)
    ELSE 1

compute_type(cap) ==
    IF cap.device = "cuda"
    THEN (IF cap.bf16 THEN "float16" ELSE "int8")
    ELSE "int8"

\* line 58: the language handed to load_model
whisper_language(cfg) == IF cfg = "auto" THEN "None" ELSE cfg

\* line 90 as a symmetric check of a concrete expectation
LanguageRejectedSymmetric(detected, cfg) == cfg # "auto" /\ detected # cfg

\* line 90 with "auto" exempted
LanguageRejectedUnlessAuto(detected, cfg) ==
    detected = "zh" /\ cfg \notin {"zh", "auto"}

\* line 90: the language check
LanguageRejected(detected, cfg) == detected = "zh" /\ cfg # "zh"

\* lines 105-109 with the shift of the end under the test of the start
AdjustWordCoupled(word, start) ==
    IF "start" \in DOMAIN word
    THEN (IF "end" \in DOMAIN word
          THEN [word EXCEPT !.start = @ + start, !.end = @ + start]
          ELSE [word EXCEPT !.start = @ + start])
    ELSE word

\* lines 105-109: a word's start and end, each shifted when present
AdjustWord(word, start) ==
    LET w1 == IF "start" \in DOMAIN word
              THEN [word EXCEPT !.start = @ + start] ELSE word
    IN  IF "end" \in DOMAIN w1
        THEN [w1 EXCEPT !.end = @ + start] ELSE w1

\* lines 103-109: one segment
AdjustSegment(segment, start) ==
    [segment EXCEPT !.start = @ + start,
                    !.end = @ + start,
                    !.words = [j \in 1..Len(@) |-> AdjustWord(@[j], start)]]

\* lines 102-110: every segment of the result, in place and in order
AdjustTimestamps(segments, start) ==
    [j \in 1..Len(segments) |-> AdjustSegment(segments[j], start)]

\* ------------------------------------------------------------ transcribe
\* lines 146-148 with each result put in front of the earlier ones
RECURSIVE CombineResultsReversed(_)
CombineResultsReversed(results) ==
    IF results = <<>> THEN <<>>
    ELSE CombineResultsReversed(Tail(results)) \o results[1].segments

\* lines 146-148: extend combined_result with each result in list order
RECURSIVE CombineResults(_)
CombineResults(results) ==
    IF results = <<>> THEN <<>>
    ELSE results[1].segments \o CombineResults(Tail(results))

\* ----------------------------------------------------- collaborators' effects
\* convert_video_to_audio leaves the raw audio artifact on the store
convert_video_to_audio(st) == [st EXCEPT !.raw = TRUE]

\* demucs_main writes the background and the vocal artifact
demucs_main(st) == [st EXCEPT !.background = TRUE, !.vocal = TRUE]

\* save_language writes the language marker artifact
save_language(st, language) == [st EXCEPT !.language = language]

\* save_results writes the final transcript artifact
save_results(st, df) == [st EXCEPT !.transcript = File(df)]

\* ----------------------------------------------------- accelerator memory
\* A model loaded on the accelerator takes one block: a cached free block
\* when there is one, a fresh one otherwise.  Dropping the last reference
\* leaves the block cached; torch.cuda.empty_cache() gives cached blocks
\* back.  On the cpu device nothing is held on the accelerator.
LoadOnDevice(cap, mem) ==
    IF cap.device = "cuda"
    THEN [allocated |-> mem.allocated + 1,
          cached |-> IF mem.cached > 0 THEN mem.cached - 1 ELSE 0]
    ELSE mem

DropReference(cap, mem) ==
    IF cap.device = "cuda"
    THEN [allocated |-> mem.allocated - 1, cached |-> mem.cached + 1]
    ELSE mem

empty_cache(mem) == [mem EXCEPT !.cached = 0]

\* lines 85-86: del model, then empty the cache
FreeModel(cap, mem) == empty_cache(DropReference(cap, mem))

\* lines 98-99: empty the cache, then del model_a
FreeAlignModel(cap, mem) == DropReference(cap, empty_cache(mem))

Held(mem) == mem.allocated + mem.cached

\* ---------------------------------------------------------------- state
VARIABLES
    pc,               \* the statement the run is at
    run,              \* the number of this call of transcribe()
    store,            \* the artifacts on disk
    WHISPER_LANGUAGE, \* load_key("whisper.language")
    cap,              \* what torch.cuda reports
    audio_file,       \* transcribe's local audio_file
    segments,         \* the plan split_audio returned
    idx,              \* position of the for loop in segments
    all_results,      \* transcribe's local all_results
    combined_result,  \* transcribe's local combined_result
    result,           \* transcribe_audio's local result
    modelRef,         \* transcribe_audio's local model is bound
    alignRef,         \* transcribe_audio's local model_a is bound
    gpu,              \* accelerator blocks: allocated and cached
    tempFiles,        \* temporary .mp3 files left on disk
    error,            \* the exception being raised, if any
    storeAtCall,      \* history: the store when transcribe() was called
    heldAtCall,       \* history: blocks held when transcribe_audio was called
    rawResults,       \* history: each appended result before its shift
    prevOutcome,      \* history: how the previous call of transcribe() ended
    seen,             \* history: what the model calls of this run were given
                      \* (compute types, batch sizes) and returned (the
                      \* language of the first and of the latest range)
    trace             \* history: the collaborator calls of this run, in order

vars == <<pc, run, store, WHISPER_LANGUAGE, cap, audio_file, segments, idx,
          all_results, combined_result, result, modelRef, alignRef, gpu,
          tempFiles, error, storeAtCall, heldAtCall, rawResults, prevOutcome,
          seen, trace>>

config == <<WHISPER_LANGUAGE, cap>>
locals == <<audio_file, segments, idx, all_results, combined_result, result>>
models == <<modelRef, alignRef, gpu>>
history == <<storeAtCall, heldAtCall, rawResults, prevOutcome, seen>>

NothingSeen == [compute |-> {}, batch |-> {}, first |-> "none", last |-> "none"]

Stores ==
    [transcript : {NoFile, OldTranscript},
     raw : BOOLEAN, background : BOOLEAN, vocal : BOOLEAN,
     language : {NoLanguage}]

NoResult == [language |-> "none", segments |-> <<>>]

Log(kind) == Append(trace, <<kind, idx>>)

Init ==
    /\ pc = "check"
    /\ run = 1
    /\ store \in Stores
    /\ WHISPER_LANGUAGE \in ConfigLanguages
    /\ cap \in Capabilities
    /\ audio_file = "none"
    /\ segments = <<>>
    /\ idx = 0
    /\ all_results = <<>>
    /\ combined_result = [segments |-> <<>>]
    /\ result = NoResult
    /\ modelRef = FALSE
    /\ alignRef = FALSE
    /\ gpu = [allocated |-> 0, cached |-> 0]
    /\ tempFiles = 0
    /\ error = "none"
    /\ storeAtCall = store
    /\ heldAtCall = 0
    /\ rawResults = <<>>
    /\ prevOutcome = "none"
    /\ seen = NothingSeen
    /\ trace = <<>>

\* ------------------------------------------------------------ transcribe
\* lines 116-118: the transcript exists, return
SkipExisting ==
    /\ pc = "check"
    /\ store.transcript.present
    /\ pc' = "skipped"
    /\ UNCHANGED <<run, store, config, locals, models, tempFiles, error,
                   history, trace>>

\* ConvertVideo without the existence test of line 116
ConvertVideoUnchecked ==
    /\ pc = "check"
    /\ store' = convert_video_to_audio(store)
    /\ audio_file' = "raw"
    /\ trace' = Log("convert")
    /\ pc' = "separate"
    /\ UNCHANGED <<run, config, segments, idx, all_results, combined_result,
                   result, models, tempFiles, error, history>>

\* lines 116, 120: no transcript, convert the video to audio
ConvertVideo ==
    /\ pc = "check"
    /\ ~store.transcript.present
    /\ store' = convert_video_to_audio(store)
    /\ audio_file' = "raw"
    /\ trace' = Log("convert")
    /\ pc' = "separate"
    /\ UNCHANGED <<run, config, segments, idx, all_results, combined_result,
                   result, models, tempFiles, error, history>>

\* lines 123-124, 134: the background artifact exists, skip demucs
SkipDemucs ==
    /\ pc = "separate"
    /\ store.background
    /\ audio_file' = "vocal"
    /\ pc' = "split"
    /\ UNCHANGED <<run, store, config, segments, idx, all_results,
                   combined_result, result, models, tempFiles, error,
                   history, trace>>

\* lines 123, 125-134: run demucs
RunDemucs ==
    /\ pc = "separate"
    /\ ~store.background
    /\ store' = demucs_main(store)
    /\ audio_file' = "vocal"
    /\ trace' = Log("separate")
    /\ pc' = "split"
    /\ UNCHANGED <<run, config, segments, idx, all_results, combined_result,
                   result, models, tempFiles, error, history>>

\* lines 137, 140: split_audio plans the vocal track
SplitAudio ==
    /\ pc = "split"
    /\ store.vocal
    /\ \E total \in Durations :
           segments' = PlanOf(total, MaxChunkSeconds)
    /\ all_results' = <<>>
    /\ idx' = 1
    /\ trace' = Log("plan")
    /\ pc' = "loop"
    /\ UNCHANGED <<run, store, config, audio_file, combined_result, result,
                   models, tempFiles, error, history>>

\* line 137: split_audio cannot read a vocal track that is not there
SplitAudioMissing ==
    /\ pc = "split"
    /\ ~store.vocal
    /\ error' = "split_audio"
    /\ trace' = Log("plan")
    /\ pc' = "failed"
    /\ UNCHANGED <<run, store, config, locals, models, tempFiles, history>>

\* lines 141-142, 20-34: the next range of the plan, transcribe_audio called
CallTranscribeAudio ==
    /\ pc = "loop"
    /\ idx <= Len(segments)
    /\ heldAtCall' = Held(gpu)
    /\ result' = NoResult
    /\ trace' = Log("call")
    /\ pc' = "ta_load"
    /\ UNCHANGED <<run, store, config, audio_file, segments, idx,
                   all_results, combined_result, models, tempFiles, error,
                   storeAtCall, rawResults, prevOutcome, seen>>

\* lines 141, 146-148: the plan is exhausted, combine the results
Combine ==
    /\ pc = "loop"
    /\ idx > Len(segments)
    /\ combined_result' = [segments |-> CombineResults(all_results)]
    /\ trace' = Log("combine")
    /\ pc' = "save"
    /\ UNCHANGED <<run, store, config, audio_file, segments, idx,
                   all_results, result, models, tempFiles, error, history>>

\* lines 150-151: process_transcription, save_results
SaveResults ==
    /\ pc = "save"
    /\ store' = save_results(store, process_transcription(combined_result))
    /\ trace' = Log("save")
    /\ pc' = "done"
    /\ UNCHANGED <<run, config, locals, models, tempFiles, error, history>>

\* ------------------------------------------------------ transcribe_audio
\* the start offset of the range being transcribed
start == segments[idx][1]

\* lines 37-59: whisperx.load_model returns the model
LoadModel ==
    /\ pc = "ta_load"
    /\ modelRef' = TRUE
    /\ gpu' = LoadOnDevice(cap, gpu)
    /\ seen' = [seen EXCEPT !.compute = @ \cup {compute_type(cap)}]
    /\ trace' = Log("load_model")
    /\ pc' = "ta_extract"
    /\ UNCHANGED <<run, store, config, locals, alignRef, tempFiles, error,
                   storeAtCall, heldAtCall, rawResults, prevOutcome>>

\* line 59: whisperx.load_model raises
LoadModelFails ==
    /\ pc = "ta_load"
    /\ error' = "load_model"
    /\ seen' = [seen EXCEPT !.compute = @ \cup {compute_type(cap)}]
    /\ trace' = Log("load_model")
    /\ pc' = "ta_except"
    /\ UNCHANGED <<run, store, config, locals, models, tempFiles,
                   storeAtCall, heldAtCall, rawResults, prevOutcome>>

\* lines 62-71: cut the range with ffmpeg, load it, delete the temporary file
ExtractAudio ==
    /\ pc = "ta_extract"
    /\ trace' = Log("extract")
    /\ pc' = "ta_transcribe"
    /\ UNCHANGED <<run, store, config, locals, models, tempFiles, error,
                   history>>

\* lines 62-69: ffmpeg or librosa.load raises, the temporary file stays
ExtractAudioFails ==
    /\ pc = "ta_extract"
    /\ \E step \in {"ffmpeg", "librosa.load"} : error' = step
    /\ tempFiles' = tempFiles + 1
    /\ trace' = Log("extract")
    /\ pc' = "ta_except"
    /\ UNCHANGED <<run, store, config, locals, models, history>>

\* lines 81-82: model.transcribe returns the language and the raw segments
Transcribe ==
    /\ pc = "ta_transcribe"
    /\ \E language \in DetectedLanguages :
           /\ result' = [language |-> language, segments |-> <<>>]
           /\ seen' = [seen EXCEPT
                          !.batch = @ \cup {batch_size(cap)},
                          !.first = IF idx = 1 THEN language ELSE @,
                          !.last = language]
    /\ trace' = Log("transcribe")
    /\ pc' = "ta_free"
    /\ UNCHANGED <<run, store, config, audio_file, segments, idx,
                   all_results, combined_result, models, tempFiles, error,
                   storeAtCall, heldAtCall, rawResults, prevOutcome>>

\* line 81: model.transcribe raises
TranscribeFails ==
    /\ pc = "ta_transcribe"
    /\ error' = "transcribe"
    /\ seen' = [seen EXCEPT !.batch = @ \cup {batch_size(cap)}]
    /\ trace' = Log("transcribe")
    /\ pc' = "ta_except"
    /\ UNCHANGED <<run, store, config, locals, models, tempFiles,
                   storeAtCall, heldAtCall, rawResults, prevOutcome>>

\* lines 85-86 without the del: the model stays bound
FreeGpuKeepsModel ==
    /\ pc = "ta_free"
    /\ gpu' = empty_cache(gpu)
    /\ trace' = Log("free_model")
    /\ pc' = "ta_language"
    /\ UNCHANGED <<run, store, config, locals, modelRef, alignRef, tempFiles,
                   error, history>>

\* lines 85-86: del model, torch.cuda.empty_cache()
FreeGpu ==
    /\ pc = "ta_free"
    /\ modelRef' = FALSE
    /\ gpu' = FreeModel(cap, gpu)
    /\ trace' = Log("free_model")
    /\ pc' = "ta_language"
    /\ UNCHANGED <<run, store, config, locals, alignRef, tempFiles, error,
                   history>>

\* lines 89-90 with the language saved for the first range only
LanguageAcceptedFirstOnly ==
    /\ pc = "ta_language"
    /\ ~LanguageRejected(result.language, WHISPER_LANGUAGE)
    /\ store' = IF idx = 1 THEN save_language(store, result.language)
                ELSE store
    /\ trace' = Log("language")
    /\ pc' = "ta_load_align"
    /\ UNCHANGED <<run, config, locals, models, tempFiles, error, history>>

\* lines 89-90: save_language, the language passes the check
LanguageAccepted ==
    /\ pc = "ta_language"
    /\ ~LanguageRejected(result.language, WHISPER_LANGUAGE)
    /\ store' = save_language(store, result.language)
    /\ trace' = Log("language")
    /\ pc' = "ta_load_align"
    /\ UNCHANGED <<run, config, locals, models, tempFiles, error, history>>

\* lines 89-91 with the check made before save_language
LanguageMismatchNoSave ==
    /\ pc = "ta_language"
    /\ LanguageRejected(result.language, WHISPER_LANGUAGE)
    /\ error' = "ValueError"
    /\ trace' = Log("language")
    /\ pc' = "ta_except"
    /\ UNCHANGED <<run, store, config, locals, models, tempFiles, history>>

\* lines 89-91 with the rejection reported and the range aligned all the same
LanguageMismatchGoesOn ==
    /\ pc = "ta_language"
    /\ LanguageRejected(result.language, WHISPER_LANGUAGE)
    /\ store' = save_language(store, result.language)
    /\ error' = "ValueError"
    /\ trace' = Log("language")
    /\ pc' = "ta_load_align"
    /\ UNCHANGED <<run, config, locals, models, tempFiles, history>>

\* lines 89-91: save_language, then ValueError
LanguageMismatch ==
    /\ pc = "ta_language"
    /\ LanguageRejected(result.language, WHISPER_LANGUAGE)
    /\ store' = save_language(store, result.language)
    /\ error' = "ValueError"
    /\ trace' = Log("language")
    /\ pc' = "ta_except"
    /\ UNCHANGED <<run, config, locals, models, tempFiles, history>>

\* line 94: whisperx.load_align_model returns the alignment model
LoadAlignModel ==
    /\ pc = "ta_load_align"
    /\ alignRef' = TRUE
    /\ gpu' = LoadOnDevice(cap, gpu)
    /\ trace' = Log("load_align_model")
    /\ pc' = "ta_align"
    /\ UNCHANGED <<run, store, config, locals, modelRef, tempFiles, error,
                   history>>

\* line 94: whisperx.load_align_model raises
LoadAlignModelFails ==
    /\ pc = "ta_load_align"
    /\ error' = "load_align_model"
    /\ trace' = Log("load_align_model")
    /\ pc' = "ta_except"
    /\ UNCHANGED <<run, store, config, locals, models, tempFiles, history>>

\* line 95: whisperx.align returns the aligned segments, which replace result
Align ==
    /\ pc = "ta_align"
    /\ \E aligned \in AlignOutputs : result' = [segments |-> aligned]
    /\ trace' = Log("align")
    /\ pc' = "ta_free_align"
    /\ UNCHANGED <<run, store, config, audio_file, segments, idx,
                   all_results, combined_result, models, tempFiles, error,
                   history>>

\* line 95: whisperx.align raises
AlignFails ==
    /\ pc = "ta_align"
    /\ error' = "align"
    /\ trace' = Log("align")
    /\ pc' = "ta_except"
    /\ UNCHANGED <<run, store, config, locals, models, tempFiles, history>>

\* lines 98-99: torch.cuda.empty_cache(), del model_a
FreeGpuAgain ==
    /\ pc = "ta_free_align"
    /\ alignRef' = FALSE
    /\ gpu' = FreeAlignModel(cap, gpu)
    /\ trace' = Log("free_align_model")
    /\ pc' = "ta_adjust"
    /\ UNCHANGED <<run, store, config, locals, modelRef, tempFiles, error,
                   history>>

\* a loop that steps over a range
NextRangeSkips(i) == i + 2

\* the position of the for loop after one more range
NextRange(i) == i + 1

\* lines 102-110, 143: shift the timestamps, return, append to all_results
AdjustAndReturn ==
    /\ pc = "ta_adjust"
    /\ result' = [result EXCEPT !.segments = AdjustTimestamps(@, start)]
    /\ all_results' = Append(all_results, result')
    /\ rawResults' = Append(rawResults, result)
    /\ idx' = NextRange(idx)
    /\ trace' = Log("return")
    /\ pc' = "loop"
    /\ UNCHANGED <<run, store, config, audio_file, segments, combined_result,
                   models, tempFiles, error, storeAtCall, heldAtCall,
                   prevOutcome, seen>>

\* lines 111-113 with the failed range tried again
ReraiseRetry ==
    /\ pc = "ta_except"
    /\ trace' = Log("raise")
    /\ pc' = "loop"
    /\ UNCHANGED <<run, store, config, locals, models, tempFiles, error,
                   history>>

\* lines 111-113 with the exception swallowed: the loop goes on
ReraiseSwallowed ==
    /\ pc = "ta_except"
    /\ idx' = idx + 1
    /\ trace' = Log("raise")
    /\ pc' = "loop"
    /\ UNCHANGED <<run, store, config, audio_file, segments, all_results,
                   combined_result, result, models, tempFiles, error,
                   history>>

\* lines 111-113: print the error and raise it again; transcribe has no
\* handler, so the run ends with the exception
Reraise ==
    /\ pc = "ta_except"
    /\ trace' = Log("raise")
    /\ pc' = "failed"
    /\ UNCHANGED <<run, store, config, locals, models, tempFiles, error,
                   history>>

\* ------------------------------------------------------------ the caller
Ended == pc \in {"skipped", "done", "failed"}

\* transcribe() is called again on the store the last call left; the frame
\* of a failed call is gone, and with it the references it still held
CallAgain ==
    /\ Ended
    /\ run < MaxRuns
    /\ run' = run + 1
    /\ prevOutcome' = pc
    /\ storeAtCall' = store
    /\ heldAtCall' = 0
    /\ rawResults' = <<>>
    /\ seen' = NothingSeen
    /\ audio_file' = "none"
    /\ segments' = <<>>
    /\ idx' = 0
    /\ all_results' = <<>>
    /\ combined_result' = [segments |-> <<>>]
    /\ result' = NoResult
    /\ modelRef' = FALSE
    /\ alignRef' = FALSE
    /\ gpu' = [allocated |-> 0, cached |-> Held(gpu)]
    /\ error' = "none"
    /\ trace' = <<>>
    /\ pc' = "check"
    /\ UNCHANGED <<store, config, tempFiles>>

Next ==
    \/ SkipExisting
    \/ ConvertVideo
    \/ SkipDemucs
    \/ RunDemucs
    \/ SplitAudio
    \/ SplitAudioMissing
    \/ CallTranscribeAudio
    \/ LoadModel
    \/ LoadModelFails
    \/ ExtractAudio
    \/ ExtractAudioFails
    \/ Transcribe
    \/ TranscribeFails
    \/ FreeGpu
    \/ LanguageAccepted
    \/ LanguageMismatch
    \/ LoadAlignModel
    \/ LoadAlignModelFails
    \/ Align
    \/ AlignFails
    \/ FreeGpuAgain
    \/ AdjustAndReturn
    \/ Reraise
    \/ Combine
    \/ SaveResults
    \/ CallAgain

Spec == Init /\ [][Next]_vars

\* ================================================================ claims
KindsOf(tr) == [p \in 1..Len(tr) |-> tr[p][1]]
CountOf(tr, kinds) == Cardinality({p \in 1..Len(tr) : tr[p][1] \in kinds})
ModelKinds == {"load_model", "transcribe", "load_align_model", "align"}

\* C1: a call of transcribe() that finds the final transcript on the store
\* calls no collaborator (no conversion, separation, planning, model load,
\* transcribe or align), writes no artifact and returns normally; and a call
\* made after a call that ended successfully finds the transcript.
C1_WholeRunShortCircuit ==
    /\ storeAtCall.transcript.present =>
          /\ pc \in {"check", "skipped"}
          /\ trace = <<>>
          /\ store = storeAtCall
          /\ error = "none"
          /\ ~modelRef /\ ~alignRef
    /\ prevOutcome = "done" =>
          /\ storeAtCall.transcript.present
          /\ CountOf(trace, ModelKinds) = 0

C1_Witness == pc = "skipped" /\ prevOutcome = "done"

\* C2: the transcript artifact is written at most once in a run, and only
\* when every range of the plan has an appended result and no call has
\* failed; once a call has failed the run is on its way to FAILED or there,
\* and the transcript artifact is as it was when the run started.
C2_NoPartialTranscript ==
    LET saves == CountOf(trace, {"save"})
    IN
    /\ saves <= 1
    /\ (store.transcript # storeAtCall.transcript \/ saves = 1) =>
          /\ pc = "done"
          /\ error = "none"
          /\ Len(all_results) = Len(segments)
          /\ \A k \in 1..Len(segments) :
                 \A kind \in {"transcribe", "align", "return"} :
                     \E p \in 1..Len(trace) : trace[p] = <<kind, k>>
    /\ error # "none" =>
          /\ pc \in {"ta_except", "failed"}
          /\ store.transcript = storeAtCall.transcript
          /\ saves = 0
    /\ pc = "ta_except" => error # "none"

C2_Witness == pc = "failed" /\ error = "align" /\ Len(all_results) = 1

BackInCoordinator ==
    \/ pc = "loop" /\ idx > 1
    \/ pc = "failed" /\ error # "split_audio"

\* C5 as claimed: when transcribe_audio has returned or raised, neither
\* model is still referenced and the accelerator holds what it held when
\* the call was made.
C5_ScopedRelease ==
    BackInCoordinator =>
        /\ ~modelRef
        /\ ~alignRef
        /\ Held(gpu) = heldAtCall

\* the steps that count as invoking a range
InvokerKinds == ModelKinds \cup {"call"}

AtMostOncePerRange(tr) ==
    Cardinality({tr[p] : p \in {q \in 1..Len(tr) : tr[q][1] \in InvokerKinds}})
        = CountOf(tr, InvokerKinds)

\* the collaborator call that raised the error of this run
FailingStep ==
    CASE error \in {"ffmpeg", "librosa.load"} -> "extract"
      [] error = "ValueError" -> "language"
      [] OTHER -> error

\* C6: no range of the plan is invoked, loaded for, transcribed or aligned
\* more than once in a run; and a run in which a call has failed has done
\* nothing after the failing step but propagate the error: the failing
\* step of the range being processed is the last collaborator call of the
\* run, no result was appended for it, the ranges after it were never
\* invoked, and the run is FAILED or on its way there.
C6_FailFast ==
    /\ AtMostOncePerRange(trace)
    /\ (error # "none" /\ error # "split_audio") =>
          LET last == IF pc = "failed" THEN Len(trace) - 1 ELSE Len(trace)
          IN  /\ pc \in {"ta_except", "failed"}
              /\ pc = "failed" => trace[Len(trace)] = <<"raise", idx>>
              /\ trace[last] = <<FailingStep, idx>>
              /\ Len(all_results) = idx - 1
              /\ \A p \in 1..Len(trace) :
                     trace[p][1] \in InvokerKinds => trace[p][2] <= idx
              /\ CountOf(trace, {"raise"}) = IF pc = "failed" THEN 1 ELSE 0
    /\ pc = "failed" => ~ENABLED (Next /\ run' = run)

C6_Witness ==
    /\ pc = "failed" /\ error = "transcribe"
    /\ idx = 1 /\ Len(segments) = 2 /\ all_results = <<>>

\* the two ends of an invocation
CallReturnKinds == {"call", "return"}

\* the calls and returns of transcribe_audio in this run, in order
CallsAndReturns == SelectSeq(trace, LAMBDA e : e[1] \in CallReturnKinds)

\* the invocation of range k is the one in progress at position p of the
\* trace: going back from p, the first call or return met is the call of k
InProgressAt(p, k) ==
    \E d \in 1..(p - 1) :
        /\ trace[p - d][1] = "call"
        /\ trace[p - d][2] = k
        /\ \A e \in 1..(d - 1) : trace[p - e][1] \notin CallReturnKinds

\* C7: the calls and returns of transcribe_audio alternate, call 1,
\* return 1, call 2, return 2, ... in plan order; every model call made for
\* a range lies between the call and the return of that range; and a run
\* that is done has called and returned every range of the plan once.
C7_PlanOrder ==
    LET cr == CallsAndReturns
    IN
    /\ \A p \in 1..Len(cr) :
           /\ cr[p][1] = IF p % 2 = 1 THEN "call" ELSE "return"
           /\ cr[p][2] = (p + 1) \div 2
    /\ \A p \in 1..Len(trace) :
           trace[p][1] \in ModelKinds => InProgressAt(p, trace[p][2])
    /\ (modelRef \/ alignRef) /\ pc # "failed" /\ pc # "ta_except" =>
           Len(cr) % 2 = 1
    /\ pc \in {"save", "done"} =>
           /\ Len(cr) = 2 * Len(segments)
           /\ \A kind \in ModelKinds : CountOf(trace, {kind}) = Len(segments)

C7_Witness == pc = "done" /\ Len(segments) = 2

\* the number of aligned segments of the ranges before range k
SegmentsBefore(k) ==
    LET Sum[i \in 0..Len(rawResults)] ==
            IF i = 0 THEN 0 ELSE Sum[i - 1] + Len(rawResults[i].segments)
    IN  Sum[k - 1]

\* segment out is segment in with every timestamp it has moved by offset
ShiftedBy(out, in, offset) ==
    /\ out.start = in.start + offset
    /\ out.end = in.end + offset
    /\ out.text = in.text
    /\ Len(out.words) = Len(in.words)
    /\ \A j \in 1..Len(in.words) :
           /\ DOMAIN out.words[j] = DOMAIN in.words[j]
           /\ out.words[j].word = in.words[j].word
           /\ "start" \in DOMAIN in.words[j] =>
                  out.words[j].start = in.words[j].start + offset
           /\ "end" \in DOMAIN in.words[j] =>
                  out.words[j].end = in.words[j].end + offset

\* C8: the combined result of a run that reached the merge is the
\* concatenation, in plan order, of the aligned segments of each range, each
\* segment and each word kept in its place with the same text, and every
\* timestamp that range k returned moved by the start of range k.
C8_Merge ==
    pc \in {"save", "done"} =>
        /\ Len(rawResults) = Len(segments)
        /\ Len(combined_result.segments) = SegmentsBefore(Len(segments) + 1)
        /\ \A k \in 1..Len(segments) :
               \A j \in 1..Len(rawResults[k].segments) :
                   ShiftedBy(combined_result.segments[SegmentsBefore(k) + j],
                             rawResults[k].segments[j], segments[k][1])

C8_Witness ==
    /\ pc = "done" /\ Len(segments) = 2
    /\ Len(combined_result.segments) = 3
    /\ \E j \in 1..2 :
           combined_result.segments[j].start > combined_result.segments[j + 1].start

\* the offset taken away from every timestamp a word has
UnshiftWord(word, offset) ==
    [key \in DOMAIN word |->
        IF key \in {"start", "end"} THEN word[key] - offset ELSE word[key]]

Unshift(segs, offset) ==
    [j \in 1..Len(segs) |->
        [start |-> segs[j].start - offset,
         end |-> segs[j].end - offset,
         text |-> segs[j].text,
         words |-> [i \in 1..Len(segs[j].words) |->
                       UnshiftWord(segs[j].words[i], offset)]]]

\* C9: each result transcribe_audio returned is its aligned result with the
\* start of its range added to every segment start and end and to every word
\* start and end that is there, a word start or end that is not there still
\* not there, texts and order as they were; and taking the start of the range
\* away again gives the aligned result back.
C9_ReconcilerShift ==
    /\ Len(all_results) = Len(rawResults)
    /\ \A k \in 1..Len(all_results) :
           /\ DOMAIN all_results[k] = DOMAIN rawResults[k]
           /\ Len(all_results[k].segments) = Len(rawResults[k].segments)
           /\ \A j \in 1..Len(rawResults[k].segments) :
                  ShiftedBy(all_results[k].segments[j],
                            rawResults[k].segments[j], segments[k][1])
           /\ Unshift(all_results[k].segments, segments[k][1])
                  = rawResults[k].segments

C9_Witness ==
    /\ Len(all_results) = 2
    /\ segments[2][1] > 0
    /\ Len(all_results[2].segments) = 2
    /\ "start" \notin DOMAIN all_results[2].segments[1].words[1]
    /\ all_results[2].segments[1].words[1].end = 2 + segments[2][1]

\* the run has gone through lines 123-134
PastSeparation == trace # <<>> /\ pc # "separate"

\* C10 as claimed: once a run is past the separation step, demucs was not
\* called and left the artifacts and the vocal track alone when the
\* background and the vocal artifact were both on the store at the start of
\* the run, and was called exactly once, before the planner, when they were
\* not.
C10_SeparationShortCircuit ==
    PastSeparation =>
        IF storeAtCall.background /\ storeAtCall.vocal
        THEN /\ CountOf(trace, {"separate"}) = 0
             /\ audio_file = "vocal"
        ELSE /\ CountOf(trace, {"separate"}) = 1
             /\ trace[2][1] = "separate"

\* C11 as claimed: when a run is done, the language marker holds the
\* language detected for the first range of the plan.
C11_Original == pc = "done" => store.language = seen.first

\* C11 as amended: when a run has gone through every range of its plan, the
\* language marker holds the language detected for the last range of the
\* plan, whatever the earlier ranges detected.
C11_LastLanguage ==
    pc \in {"save", "done"} =>
        /\ seen.last \in DetectedLanguages
        /\ seen.first \in DetectedLanguages
        /\ store.language = seen.last

C11_Witness ==
    /\ pc = "done" /\ Len(segments) = 2
    /\ seen.first = "en" /\ seen.last = "ja" /\ store.language = "ja"

\* C12 as claimed: the language marker differs from its value at the start
\* of the run only when the run is done.
C12_Original == store.language # storeAtCall.language => pc = "done"

\* C12 as amended: the language marker is written while the ranges are
\* transcribed, for each range right after its model.transcribe returned
\* and before the language check; it has its value from before the run as
\* long as no range has reached that step, a run that failed holds the
\* language of the last range whose model.transcribe returned, and a run
\* rejected for its language holds the rejected language.
C12_MarkerTiming ==
    LET observed == CountOf(trace, {"language"})
    IN
    /\ observed = 0 => store.language = storeAtCall.language
    /\ observed > 0 =>
           /\ store.language \in DetectedLanguages
           /\ observed <= CountOf(trace, {"transcribe"})
    /\ error = "ValueError" => store.language = result.language
    /\ pc = "failed" =>
           store.language = IF seen.last = "none" THEN storeAtCall.language
                            ELSE seen.last

C12_Witness ==
    /\ pc = "failed" /\ error = "ValueError"
    /\ storeAtCall.language = NoLanguage /\ store.language = "zh"

\* C13: the batch size every model.transcribe of a run is given is 16 on an
\* accelerator of more than 8 GB, 2 on an accelerator of 8 GB or less and 1
\* without an accelerator; without an accelerator every load_model is given
\* int8; and all the calls of a run are given one batch size and one
\* compute type.
C13_InferenceConfig ==
    /\ (cap.device = "cuda" /\ cap.gpu_mem > 8) => seen.batch \subseteq {16}
    /\ (cap.device = "cuda" /\ cap.gpu_mem <= 8) => seen.batch \subseteq {2}
    /\ cap.device # "cuda" =>
           /\ seen.batch \subseteq {1}
           /\ seen.compute \subseteq {"int8"}
    /\ Cardinality(seen.batch) <= 1
    /\ Cardinality(seen.compute) <= 1
    /\ (\E p \in 1..Len(trace) : trace[p][1] = "load_model") =>
           seen.compute # {}
    /\ (\E p \in 1..Len(trace) : trace[p][1] = "transcribe") =>
           seen.batch # {}

C13_Witness ==
    /\ pc = "done" /\ Len(segments) = 2
    /\ cap.device = "cuda" /\ cap.gpu_mem = 8
    /\ seen.batch = {2}

\* C14: at no time are both models bound, and at most one block of the
\* accelerator is allocated to a model; the alignment model of a range is
\* loaded after the transcription model of that range was released, and
\* the transcription model of a range after the first is loaded after the
\* alignment model of the range before it was released.
C14_ExclusiveAccelerator ==
    /\ ~(modelRef /\ alignRef)
    /\ gpu.allocated <= 1
    /\ gpu.allocated =
           IF cap.device = "cuda" /\ (modelRef \/ alignRef) THEN 1 ELSE 0
    /\ \A p \in 1..Len(trace) :
           /\ trace[p][1] = "load_align_model" =>
                  \E d \in 1..(p - 1) :
                      /\ trace[p - d][1] = "free_model"
                      /\ trace[p - d][2] = trace[p][2]
           /\ (trace[p][1] = "load_model" /\ trace[p][2] > 1) =>
                  \E d \in 1..(p - 1) :
                      /\ trace[p - d][1] = "free_align_model"
                      /\ trace[p - d][2] = trace[p][2] - 1

C14_Witness ==
    /\ alignRef /\ ~modelRef /\ idx = 2
    /\ cap.device = "cuda" /\ gpu.allocated = 1

\* the steps of transcribe_audio for one range, in the order of the code
Protocol ==
    <<"call", "load_model", "extract", "transcribe", "free_model", "language",
      "load_align_model", "align", "free_align_model", "return">>

\* the steps this run has made for range k, in order
StepsOf(k) ==
    LET chosen == SelectSeq(trace, LAMBDA e : e[2] = k /\ e[1] # "raise")
    IN  [p \in 1..Len(chosen) |-> chosen[p][1]]

\* C15 as claimed: the language of a range is observed only after the
\* align call of that range.
C15_Original ==
    \A p \in 1..Len(trace) :
        trace[p][1] = "language" =>
            \E q \in 1..p : trace[q] = <<"align", trace[p][2]>>

\* C15 as amended: for each range the steps occur in the order model load,
\* audio extraction, transcribe, release, language observation and check,
\* alignment model load, align, release, timestamp shift and return with
\* the append; the language of a range is observed once, after the
\* transcribe and before the align of that range, and a range that is
\* rejected is never aligned, shifted or appended.
C15_ProtocolOrder ==
    /\ \A k \in 1..Len(segments) :
           LET steps == StepsOf(k)
           IN  /\ Len(steps) <= Len(Protocol)
               /\ steps = SubSeq(Protocol, 1, Len(steps))
               /\ k <= Len(all_results) <=> Len(steps) = Len(Protocol)
    /\ error = "ValueError" =>
           /\ StepsOf(idx) = SubSeq(Protocol, 1, 6)
           /\ Len(all_results) = idx - 1

C15_Witness ==
    /\ pc = "failed" /\ error = "ValueError"
    /\ idx = 2 /\ Len(all_results) = 1

\* C16 as claimed: whenever the planner is about to read the vocal audio
\* artifact, or a range is being transcribed from it, the artifact is on
\* the store.
C16_VocalAtPlanning ==
    (pc = "split" \/ (idx >= 1 /\ pc \notin {"failed", "skipped"}))
        => store.vocal

\* C17 as claimed: when transcribe_audio has returned or raised, and when a
\* run has ended, no temporary audio file is left.
C17_NoTemporaryFileLeft ==
    (BackInCoordinator \/ Ended) => tempFiles = 0

====
